---- MODULE Spec2Model ----
(***************************************************************************)
(* Model of src/src/RiskAssessment.py: the global FeatureState, the three  *)
(* async generator handlers with their worker threads, approve_features,   *)
(* and the Gradio components the handlers read and write.                  *)
(*                                                                         *)
(* A handler invocation occupies a slot.  Each statement of a handler or   *)
(* of a worker thread that reads or writes the global `state`, performs a  *)
(* request, or yields an event is one action, so that threads interleave   *)
(* at every access of the shared object.                                   *)
(***************************************************************************)
EXTENDS Integers, Sequences, FiniteSets, TLC

\* ---------------------------------------------------------------- bounds
\* number of handler invocations that may be running at the same time
MaxInv == 1
\* number of UI triggers (button clicks) in one behaviour
MaxOps == 5

\* ---------------------------------------------------------------- values
\* Python None
None == "None"

\* the documents a user uploads (uploaded_file.name)
Docs == {"A", "B"}

\* feedback texts typed by the user, as sequences of characters
FeedbackTexts == { <<>>, <<" ">>, <<" ", "\t">>, <<"o", "k">>, <<" ", "o", " ">> }

Whitespace == {" ", "\t", "\n"}

RECURSIVE LStrip(_)
LStrip(s) == IF s # <<>> /\ Head(s) \in Whitespace THEN LStrip(Tail(s)) ELSE s

RECURSIVE RStrip(_)
RStrip(s) ==
    IF s # <<>> /\ s[Len(s)] \in Whitespace THEN RStrip(SubSeq(s, 1, Len(s) - 1)) ELSE s

\* str.strip()
Strip(s) == RStrip(LStrip(s))

\* mutant of Falsy: the guard is `is None`
Falsy_NoneOnly(x) == x = None

\* mutant of Falsy: the guard compares with the empty text only
Falsy_EmptyOnly(x) == x = ""

\* Python truth value of a str-or-None: `not x`
Falsy(x) == x = None \/ x = ""

\* mutant of Blank: `not feedback`, without strip()
Blank_NoStrip(s) == Len(s) = 0

\* `not feedback.strip()` on a text given as its characters
Blank(s) == Len(Strip(s)) = 0

\* dict.get(key, default) on a JSON object modelled as a function on its keys
Get(body, key, default) == IF key \in DOMAIN body THEN body[key] ELSE default

\* ------------------------------------------------------------- messages
UploadFirstMsg == "Please upload a requirements document first."
FeedbackFirstMsg == "Please provide feedback before submitting."
FeedbackEmptyStatus == "Feedback cannot be empty"
ApproveFirstMsg == "Please approve features first before analyzing risks."
NoApprovedStatus == "No approved features found"
ApprovedStatus == "Features have been approved!"
ResponseGeneratedStatus == "Response Generated!"
FeedbackDoneStatus == "Feedback processed successfully!"
RiskInitStatus == "Initiating risk analysis..."
RiskDoneStatus == "Risk analysis completed successfully!"
RiskErrorStatus == "Error occurred during risk analysis"
NoFeaturesExtracted == "No features extracted"
NoFeaturesReEvaluated == "No features re-evaluated"
NoRisksIdentified == "No risks identified"

ProcessMessages ==
    << "Processing document...", "Creating Knowledge graph...",
       "Retrieving Nodes and Edges...", "Thinking...", "Generating Response..." >>

FeedbackMessages ==
    << "Processing feedback...", "Analyzing feedback content...",
       "Updating feature extraction...", "Generating revised features..." >>

RiskMessages ==
    << "Analyzing security risks...", "Identifying vulnerabilities...",
       "Evaluating compliance requirements...", "Generating mitigation strategies...",
       "Preparing final report..." >>

\* ------------------------------------------------------------- backend
\* What the remote service answers.  An answer is an HTTP response
\* [status, body] or the transport failure NoResponse.
NoResponse == [status |-> 0, body |-> << >>]

SrsOf(doc) == IF doc = "A" THEN "srsA" ELSE "srsB"
SummaryOf(doc) == IF doc = "A" THEN "sumA" ELSE "sumB"
FeaturesOf(srs) ==
    IF srs = "srsA" THEN "featA" ELSE IF srs = "srsB" THEN "featB" ELSE "feat0"
RevisedOf(srs) ==
    IF srs = "srsA" THEN "revA" ELSE IF srs = "srsB" THEN "revB" ELSE "rev0"
RisksOf(features) == "risk report"

SummaryAnswers(doc) ==
    { [status |-> 200, body |-> [srs_text |-> SrsOf(doc), project_summary |-> SummaryOf(doc)]],
      [status |-> 500, body |-> << >>],
      NoResponse }

ExtractAnswers(payload) ==
    { [status |-> 200, body |-> [feature_details |-> FeaturesOf(payload.srs_content)]],
      [status |-> 200, body |-> [feature_details |-> ""]],
      [status |-> 200, body |-> << >>],
      [status |-> 500, body |-> << >>],
      NoResponse }

ReEvaluateAnswers(payload) ==
    { [status |-> 200, body |-> [feature_details |-> RevisedOf(payload.srs_content)]],
      [status |-> 200, body |-> << >>],
      [status |-> 500, body |-> << >>] }

RiskAnswers(payload) ==
    { [status |-> 200, body |-> [risk_analysis |-> RisksOf(payload.features)]],
      [status |-> 200, body |-> << >>],
      [status |-> 500, body |-> << >>],
      NoResponse }

\* requests.post raises ConnectionError, raise_for_status raises HTTPError
Raises(answer) == answer = NoResponse \/ answer.status >= 400

\* str(e) behind the prefix of each except clause
ApiError(answer) ==
    IF answer = NoResponse THEN "API Error: connection failed"
    ELSE "API Error: 500 Server Error"

ReEvaluationError(answer) ==
    IF answer = NoResponse THEN "Error in re-evaluation: connection failed"
    ELSE "Error in re-evaluation: 500 Server Error"

\* lines 265-267: the response text is appended when the exception carries a response
RiskApiError(answer) ==
    IF answer = NoResponse THEN "API Error: connection failed"
    ELSE "API Error: 500 Server Error\nResponse: Internal Server Error"

\* --------------------------------------------------------------- state
VARIABLES
    state,      \* the global FeatureState object
    ui,         \* the components handlers read or whose visibility gates a button
    inv,        \* the handler invocations, one per slot
    nOps,       \* UI triggers so far
    approveCalls \* approve_features calls so far

vars == << state, ui, inv, nOps, approveCalls >>

Slots == 1 .. MaxInv

\* an unused slot; snap records the approved_features the invocation found when
\* it built its payload, checked the one it tested at line 203, late the number
\* of progress events it yielded after its worker had completed
IdleSlot ==
    [ fn |-> "idle", pc |-> "idle", file |-> None, feedback |-> << >>, features |-> None,
      idx |-> 0, waits |-> 0, events |-> << >>, reqs |-> << >>,
      wpc |-> "none", wanswer |-> NoResponse, wpayload |-> << >>, wret |-> None,
      payload |-> << >>, snap |-> None, checked |-> None, late |-> 0 ]

\* FeatureState.__init__
FeatureState ==
    [ srs_content |-> None, project_summary |-> None,
      feature_details |-> None, approved_features |-> None ]

Init ==
    /\ state = FeatureState
    /\ ui = [ features_output |-> "", feedback_section |-> FALSE, risk_section |-> FALSE ]
    /\ inv = [ i \in Slots |-> IdleSlot ]
    /\ nOps = 0
    /\ approveCalls = 0

\* future.done()
FutureDone(i) == inv[i].wpc = "done"

\* a yielded 4-tuple (features_output, feedback_section, risk_section, status_box)
\* is applied to the components
Render(e) == [ features_output |-> e[1], feedback_section |-> e[2], risk_section |-> e[3] ]

\* ------------------------------------------- process_documents_with_status
\* mutant of ProcessStart: the worker is submitted without the check of
\* uploaded_file
ProcessStart_NoValidation(i) ==
    /\ inv[i].fn = "idle"
    /\ nOps < MaxOps
    /\ nOps' = nOps + 1
    /\ \E uploaded_file \in Docs \cup {None} :
          /\ inv' = [inv EXCEPT ![i] = [IdleSlot EXCEPT !.fn = "process", !.pc = "check",
                                                        !.file = uploaded_file,
                                                        !.idx = 1, !.wpc = "w42"]]
          /\ ui' = ui
    /\ UNCHANGED << state, approveCalls >>

\* extract_features_btn.click: lines 104-117
ProcessStart(i) ==
    /\ inv[i].fn = "idle"
    /\ nOps < MaxOps
    /\ nOps' = nOps + 1
    /\ \E uploaded_file \in Docs \cup {None} :
          IF uploaded_file = None
          THEN LET e == << UploadFirstMsg, FALSE, FALSE, "" >> IN
               /\ inv' = [inv EXCEPT ![i] = [IdleSlot EXCEPT !.fn = "process", !.pc = "exit",
                                                             !.events = << e >>]]
               /\ ui' = Render(e)
          ELSE /\ inv' = [inv EXCEPT ![i] = [IdleSlot EXCEPT !.fn = "process", !.pc = "check",
                                                             !.file = uploaded_file,
                                                             !.idx = 1, !.wpc = "w42"]]
               /\ ui' = ui
    /\ UNCHANGED << state, approveCalls >>

\* mutant of ProcessCheck: when the list is exhausted the generator returns
\* without waiting for the worker
ProcessCheck_GiveUp(i) ==
    /\ inv[i].fn = "process" /\ inv[i].pc = "check"
    /\ inv' = [inv EXCEPT ![i].pc =
                 IF FutureDone(i) THEN "result"
                 ELSE IF inv[i].idx > Len(ProcessMessages) THEN "exit" ELSE "yield"]
    /\ UNCHANGED << state, ui, nOps, approveCalls >>

\* lines 128-130: for message in messages: if future.done(): break
ProcessCheck(i) ==
    /\ inv[i].fn = "process" /\ inv[i].pc = "check"
    /\ inv' = [inv EXCEPT ![i].pc =
                 IF inv[i].idx > Len(ProcessMessages) \/ FutureDone(i) THEN "result" ELSE "yield"]
    /\ UNCHANGED << state, ui, nOps, approveCalls >>

\* mutant of ProcessYield: the loop does not advance to the next message
ProcessYield_Repeat(i) ==
    /\ inv[i].fn = "process" /\ inv[i].pc = "yield"
    /\ LET e == << "", FALSE, FALSE, ProcessMessages[inv[i].idx] >> IN
       /\ inv' = [inv EXCEPT ![i].events = Append(@, e),
                             ![i].waits = @ + 1, ![i].pc = "check",
                             ![i].late = IF FutureDone(i) THEN @ + 1 ELSE @]
       /\ ui' = Render(e)
    /\ UNCHANGED << state, nOps, approveCalls >>

\* lines 131-137: yield the progress event, then await asyncio.sleep(10)
ProcessYield(i) ==
    /\ inv[i].fn = "process" /\ inv[i].pc = "yield"
    /\ LET e == << "", FALSE, FALSE, ProcessMessages[inv[i].idx] >> IN
       /\ inv' = [inv EXCEPT ![i].events = Append(@, e), ![i].idx = @ + 1,
                             ![i].waits = @ + 1, ![i].pc = "check",
                             ![i].late = IF FutureDone(i) THEN @ + 1 ELSE @]
       /\ ui' = Render(e)
    /\ UNCHANGED << state, nOps, approveCalls >>

\* mutant of ProcessResult: the final event is yielded without future.result()
\* having waited for the worker
ProcessResult_NoWait(i) ==
    /\ inv[i].fn = "process" /\ inv[i].pc = "result"
    /\ LET e == << inv[i].wret, TRUE, TRUE, ResponseGeneratedStatus >> IN
       /\ inv' = [inv EXCEPT ![i].events = Append(@, e), ![i].pc = "exit"]
       /\ ui' = Render(e)
    /\ UNCHANGED << state, nOps, approveCalls >>

\* lines 139-148: features = future.result(); yield the final event
ProcessResult(i) ==
    /\ inv[i].fn = "process" /\ inv[i].pc = "result"
    /\ FutureDone(i)
    /\ LET e == << inv[i].wret, TRUE, TRUE, ResponseGeneratedStatus >> IN
       /\ inv' = [inv EXCEPT ![i].events = Append(@, e), ![i].pc = "exit"]
       /\ ui' = Render(e)
    /\ UNCHANGED << state, nOps, approveCalls >>

\* ------------------------------- generate_summary_and_extract_features
\* mutant of SummaryPost: raise_for_status is missing and a transport failure is
\* swallowed, so the worker goes on after a failed summary request
SummaryPost_NoRaise(i) ==
    /\ inv[i].fn = "process" /\ inv[i].wpc = "w42"
    /\ \E answer \in SummaryAnswers(inv[i].file) :
          LET req == [ endpoint |-> "/summary/generate", content |-> inv[i].file,
                       answer |-> answer ] IN
          inv' = [inv EXCEPT ![i].reqs = Append(@, req), ![i].wanswer = answer,
                             ![i].wpc = "w51"]
    /\ UNCHANGED << state, ui, nOps, approveCalls >>

\* lines 32-48: POST /summary/generate, raise_for_status, json()
SummaryPost(i) ==
    /\ inv[i].fn = "process" /\ inv[i].wpc = "w42"
    /\ \E answer \in SummaryAnswers(inv[i].file) :
          LET req == [ endpoint |-> "/summary/generate", content |-> inv[i].file,
                       answer |-> answer ] IN
          IF Raises(answer)
          THEN inv' = [inv EXCEPT ![i].reqs = Append(@, req), ![i].wanswer = answer,
                                  ![i].wret = ApiError(answer), ![i].wpc = "done"]
          ELSE inv' = [inv EXCEPT ![i].reqs = Append(@, req), ![i].wanswer = answer,
                                  ![i].wpc = "w51"]
    /\ UNCHANGED << state, ui, nOps, approveCalls >>

\* mutant of StoreSrsContent: the wrong field of summary_result is stored
StoreSrsContent_WrongField(i) ==
    /\ inv[i].fn = "process" /\ inv[i].wpc = "w51"
    /\ state' = [state EXCEPT !.srs_content = Get(inv[i].wanswer.body, "project_summary", "")]
    /\ inv' = [inv EXCEPT ![i].wpc = "w52"]
    /\ UNCHANGED << ui, nOps, approveCalls >>

\* line 51
StoreSrsContent(i) ==
    /\ inv[i].fn = "process" /\ inv[i].wpc = "w51"
    /\ state' = [state EXCEPT !.srs_content = Get(inv[i].wanswer.body, "srs_text", "")]
    /\ inv' = [inv EXCEPT ![i].wpc = "w52"]
    /\ UNCHANGED << ui, nOps, approveCalls >>

\* line 52
StoreProjectSummary(i) ==
    /\ inv[i].fn = "process" /\ inv[i].wpc = "w52"
    /\ state' = [state EXCEPT !.project_summary = Get(inv[i].wanswer.body, "project_summary", "")]
    /\ inv' = [inv EXCEPT ![i].wpc = "w57"]
    /\ UNCHANGED << ui, nOps, approveCalls >>

\* line 57: the first field of features_payload is read from the global state
ReadSrsContent(i) ==
    /\ inv[i].fn = "process" /\ inv[i].wpc = "w57"
    /\ inv' = [inv EXCEPT ![i].wpayload = [ srs_content |-> state.srs_content ],
                          ![i].wpc = "w58"]
    /\ UNCHANGED << state, ui, nOps, approveCalls >>

\* mutant of ExtractPost: a failed extraction stores its error text as the
\* feature_details
ExtractPost_StoreError(i) ==
    /\ inv[i].fn = "process" /\ inv[i].wpc = "w58"
    /\ LET payload == [ srs_content |-> inv[i].wpayload.srs_content,
                        project_summary |-> state.project_summary ]
       IN \E answer \in ExtractAnswers(payload) :
             LET req == [ endpoint |-> "/features/extract", payload |-> payload,
                          answer |-> answer ] IN
             IF Raises(answer)
             THEN /\ inv' = [inv EXCEPT ![i].reqs = Append(@, req), ![i].wpayload = payload,
                                        ![i].wanswer = answer,
                                        ![i].wret = ApiError(answer), ![i].wpc = "done"]
                  /\ state' = [state EXCEPT !.feature_details = ApiError(answer)]
             ELSE /\ inv' = [inv EXCEPT ![i].reqs = Append(@, req), ![i].wpayload = payload,
                                        ![i].wanswer = answer, ![i].wpc = "w68"]
                  /\ state' = state
    /\ UNCHANGED << ui, nOps, approveCalls >>

\* lines 58-66: the second field is read, POST /features/extract, raise_for_status
ExtractPost(i) ==
    /\ inv[i].fn = "process" /\ inv[i].wpc = "w58"
    /\ LET payload == [ srs_content |-> inv[i].wpayload.srs_content,
                        project_summary |-> state.project_summary ]
       IN \E answer \in ExtractAnswers(payload) :
             LET req == [ endpoint |-> "/features/extract", payload |-> payload,
                          answer |-> answer ] IN
             IF Raises(answer)
             THEN inv' = [inv EXCEPT ![i].reqs = Append(@, req), ![i].wpayload = payload,
                                     ![i].wanswer = answer,
                                     ![i].wret = ApiError(answer), ![i].wpc = "done"]
             ELSE inv' = [inv EXCEPT ![i].reqs = Append(@, req), ![i].wpayload = payload,
                                     ![i].wanswer = answer, ![i].wpc = "w68"]
    /\ UNCHANGED << state, ui, nOps, approveCalls >>

\* line 68
StoreFeatureDetails(i) ==
    /\ inv[i].fn = "process" /\ inv[i].wpc = "w68"
    /\ state' = [state EXCEPT !.feature_details =
                    Get(inv[i].wanswer.body, "feature_details", NoFeaturesExtracted)]
    /\ inv' = [inv EXCEPT ![i].wpc = "w69"]
    /\ UNCHANGED << ui, nOps, approveCalls >>

\* line 69: return state.feature_details
ReturnFeatureDetails(i) ==
    /\ inv[i].fn = "process" /\ inv[i].wpc = "w69"
    /\ inv' = [inv EXCEPT ![i].wret = state.feature_details, ![i].wpc = "done"]
    /\ UNCHANGED << state, ui, nOps, approveCalls >>

\* ------------------------------------------- handle_feedback_with_status
\* submit_feedback_btn.click (the button is inside feedback_section): lines 150-163
FeedbackStart(i) ==
    /\ inv[i].fn = "idle"
    /\ nOps < MaxOps
    /\ ui.feedback_section
    /\ nOps' = nOps + 1
    /\ \E feedback \in FeedbackTexts :
          LET features == ui.features_output IN
          IF Blank(feedback)
          THEN LET e == << FeedbackFirstMsg, TRUE, TRUE, FeedbackEmptyStatus >> IN
               /\ inv' = [inv EXCEPT ![i] = [IdleSlot EXCEPT !.fn = "feedback", !.pc = "exit",
                                                             !.feedback = feedback,
                                                             !.features = features,
                                                             !.events = << e >>]]
               /\ ui' = Render(e)
          ELSE /\ inv' = [inv EXCEPT ![i] = [IdleSlot EXCEPT !.fn = "feedback", !.pc = "check",
                                                             !.feedback = feedback,
                                                             !.features = features,
                                                             !.idx = 1, !.wpc = "w86"]]
               /\ ui' = ui
    /\ UNCHANGED << state, approveCalls >>

\* mutant of FeedbackCheck: the loop does not look at future.done()
FeedbackCheck_IgnoreDone(i) ==
    /\ inv[i].fn = "feedback" /\ inv[i].pc = "check"
    /\ inv' = [inv EXCEPT ![i].pc =
                 IF inv[i].idx > Len(FeedbackMessages) THEN "result" ELSE "yield"]
    /\ UNCHANGED << state, ui, nOps, approveCalls >>

\* lines 173-175
FeedbackCheck(i) ==
    /\ inv[i].fn = "feedback" /\ inv[i].pc = "check"
    /\ inv' = [inv EXCEPT ![i].pc =
                 IF inv[i].idx > Len(FeedbackMessages) \/ FutureDone(i) THEN "result" ELSE "yield"]
    /\ UNCHANGED << state, ui, nOps, approveCalls >>

\* lines 176-182: yield the progress event, then await asyncio.sleep(5)
FeedbackYield(i) ==
    /\ inv[i].fn = "feedback" /\ inv[i].pc = "yield"
    /\ LET e == << "", TRUE, TRUE, FeedbackMessages[inv[i].idx] >> IN
       /\ inv' = [inv EXCEPT ![i].events = Append(@, e), ![i].idx = @ + 1,
                             ![i].waits = @ + 1, ![i].pc = "check",
                             ![i].late = IF FutureDone(i) THEN @ + 1 ELSE @]
       /\ ui' = Render(e)
    /\ UNCHANGED << state, nOps, approveCalls >>

\* lines 184-193
FeedbackResult(i) ==
    /\ inv[i].fn = "feedback" /\ inv[i].pc = "result"
    /\ FutureDone(i)
    /\ LET e == << inv[i].wret, TRUE, TRUE, FeedbackDoneStatus >> IN
       /\ inv' = [inv EXCEPT ![i].events = Append(@, e), ![i].pc = "exit"]
       /\ ui' = Render(e)
    /\ UNCHANGED << state, nOps, approveCalls >>

\* ------------------------------------------------- re_evaluate_features
\* line 86: the first field of payload is read from the global state
ReEvaluateReadSrs(i) ==
    /\ inv[i].fn = "feedback" /\ inv[i].wpc = "w86"
    /\ inv' = [inv EXCEPT ![i].wpayload = [ srs_content |-> state.srs_content ],
                          ![i].wpc = "w87"]
    /\ UNCHANGED << state, ui, nOps, approveCalls >>

\* lines 87-97: the rest of payload, POST /features/re-evaluate, raise_for_status
ReEvaluatePost(i) ==
    /\ inv[i].fn = "feedback" /\ inv[i].wpc = "w87"
    /\ LET payload == [ srs_content |-> inv[i].wpayload.srs_content,
                        project_summary |-> state.project_summary,
                        previous_features |-> inv[i].features,
                        user_feedback |-> inv[i].feedback ]
       IN \E answer \in ReEvaluateAnswers(payload) :
             LET req == [ endpoint |-> "/features/re-evaluate", payload |-> payload,
                          answer |-> answer ] IN
             IF Raises(answer)
             THEN inv' = [inv EXCEPT ![i].reqs = Append(@, req), ![i].wpayload = payload,
                                     ![i].wanswer = answer,
                                     ![i].wret = ReEvaluationError(answer), ![i].wpc = "done"]
             ELSE inv' = [inv EXCEPT ![i].reqs = Append(@, req), ![i].wpayload = payload,
                                     ![i].wanswer = answer, ![i].wpc = "w99"]
    /\ UNCHANGED << state, ui, nOps, approveCalls >>

\* mutant of StoreReEvaluated: the approved snapshot is refreshed with the
\* re-evaluated features
StoreReEvaluated_RefreshApproved(i) ==
    /\ inv[i].fn = "feedback" /\ inv[i].wpc = "w99"
    /\ LET fd == Get(inv[i].wanswer.body, "feature_details", NoFeaturesReEvaluated) IN
       state' = [state EXCEPT !.feature_details = fd, !.approved_features = fd]
    /\ inv' = [inv EXCEPT ![i].wpc = "w100"]
    /\ UNCHANGED << ui, nOps, approveCalls >>

\* line 99
StoreReEvaluated(i) ==
    /\ inv[i].fn = "feedback" /\ inv[i].wpc = "w99"
    /\ state' = [state EXCEPT !.feature_details =
                    Get(inv[i].wanswer.body, "feature_details", NoFeaturesReEvaluated)]
    /\ inv' = [inv EXCEPT ![i].wpc = "w100"]
    /\ UNCHANGED << ui, nOps, approveCalls >>

\* line 100: return state.feature_details
ReturnReEvaluated(i) ==
    /\ inv[i].fn = "feedback" /\ inv[i].wpc = "w100"
    /\ inv' = [inv EXCEPT ![i].wret = state.feature_details, ![i].wpc = "done"]
    /\ UNCHANGED << state, ui, nOps, approveCalls >>

\* ------------------------------------------------------ approve_features
\* mutant of Approve: an approval that is already stored is kept
Approve_KeepFirst(st, features) ==
    IF st.approved_features = None THEN [st EXCEPT !.approved_features = features] ELSE st

\* line 197: the effect of approve_features(features) on the global state
Approve(st, features) == [st EXCEPT !.approved_features = features]

\* line 198: the returned updates of feedback_section and risk_section
ApproveOutputs(u) == [u EXCEPT !.feedback_section = FALSE, !.risk_section = TRUE]

\* mutant of ApproveFeatures: the approval also overwrites feature_details
ApproveFeatures_SyncDetails ==
    /\ nOps < MaxOps
    /\ ui.feedback_section
    /\ nOps' = nOps + 1
    /\ approveCalls' = approveCalls + 1
    /\ LET features == ui.features_output IN
       state' = [state EXCEPT !.approved_features = features, !.feature_details = features]
    /\ ui' = [ui EXCEPT !.feedback_section = FALSE, !.risk_section = TRUE]
    /\ UNCHANGED inv

\* approve_features_btn.click (the button is inside feedback_section):
\* lines 195-198 with inputs=[features_output]
ApproveFeatures ==
    /\ nOps < MaxOps
    /\ ui.feedback_section
    /\ nOps' = nOps + 1
    /\ approveCalls' = approveCalls + 1
    /\ LET features == ui.features_output IN
       state' = Approve(state, features)
    /\ ui' = ApproveOutputs(ui)
    /\ UNCHANGED inv

\* --------------------------------------------- analyze_risks_with_status
\* analyze_risks_btn.click (the button is inside risk_section): lines 200-208
RiskStart(i) ==
    /\ inv[i].fn = "idle"
    /\ nOps < MaxOps
    /\ ui.risk_section
    /\ nOps' = nOps + 1
    /\ IF Falsy(state.approved_features)
       THEN inv' = [inv EXCEPT ![i] = [IdleSlot EXCEPT !.fn = "risk", !.pc = "exit",
                                          !.checked = state.approved_features,
                                          !.events = << << ApproveFirstMsg, NoApprovedStatus >> >>]]
       ELSE inv' = [inv EXCEPT ![i] = [IdleSlot EXCEPT !.fn = "risk", !.pc = "r214",
                                          !.checked = state.approved_features]]
    /\ UNCHANGED << state, ui, approveCalls >>

\* mutant of RiskReadApproved: the payload takes the live feature_details
RiskReadApproved_Live(i) ==
    /\ inv[i].fn = "risk" /\ inv[i].pc = "r214"
    /\ inv' = [inv EXCEPT ![i].payload = [ features |-> state.feature_details ],
                          ![i].snap = state.approved_features,
                          ![i].pc = "r215"]
    /\ UNCHANGED << state, ui, nOps, approveCalls >>

\* line 214
RiskReadApproved(i) ==
    /\ inv[i].fn = "risk" /\ inv[i].pc = "r214"
    /\ inv' = [inv EXCEPT ![i].payload = [ features |-> state.approved_features ],
                          ![i].snap = state.approved_features,
                          ![i].pc = "r215"]
    /\ UNCHANGED << state, ui, nOps, approveCalls >>

\* line 215
RiskReadSrs(i) ==
    /\ inv[i].fn = "risk" /\ inv[i].pc = "r215"
    /\ inv' = [inv EXCEPT ![i].payload = [ features |-> inv[i].payload.features,
                                           srs_content |-> state.srs_content ],
                          ![i].pc = "r216"]
    /\ UNCHANGED << state, ui, nOps, approveCalls >>

\* lines 216-223: the payload is complete; yield the initial status
RiskReadSummary(i) ==
    /\ inv[i].fn = "risk" /\ inv[i].pc = "r216"
    /\ inv' = [inv EXCEPT ![i].payload = [ features |-> inv[i].payload.features,
                                           srs_content |-> inv[i].payload.srs_content,
                                           project_summary |-> state.project_summary ],
                          ![i].events = Append(@, << "", RiskInitStatus >>),
                          ![i].pc = "r225"]
    /\ UNCHANGED << state, ui, nOps, approveCalls >>

\* lines 225-232: executor.submit
RiskSubmit(i) ==
    /\ inv[i].fn = "risk" /\ inv[i].pc = "r225"
    /\ inv' = [inv EXCEPT ![i].pc = "check", ![i].idx = 1, ![i].wpc = "w227"]
    /\ UNCHANGED << state, ui, nOps, approveCalls >>

\* lines 227-231: the worker's requests.post(endpoint, json=payload)
RiskPost(i) ==
    /\ inv[i].fn = "risk" /\ inv[i].wpc = "w227"
    /\ \E answer \in RiskAnswers(inv[i].payload) :
          LET req == [ endpoint |-> "/api/risks/analyze", payload |-> inv[i].payload,
                       answer |-> answer ] IN
          inv' = [inv EXCEPT ![i].reqs = Append(@, req), ![i].wanswer = answer,
                             ![i].wpc = "done"]
    /\ UNCHANGED << state, ui, nOps, approveCalls >>

\* lines 243-245
RiskCheck(i) ==
    /\ inv[i].fn = "risk" /\ inv[i].pc = "check"
    /\ inv' = [inv EXCEPT ![i].pc =
                 IF inv[i].idx > Len(RiskMessages) \/ FutureDone(i) THEN "result" ELSE "yield"]
    /\ UNCHANGED << state, ui, nOps, approveCalls >>

\* lines 246-250: yield the progress event, then await asyncio.sleep(5)
RiskYield(i) ==
    /\ inv[i].fn = "risk" /\ inv[i].pc = "yield"
    /\ inv' = [inv EXCEPT ![i].events = Append(@, << "", RiskMessages[inv[i].idx] >>),
                          ![i].idx = @ + 1, ![i].waits = @ + 1, ![i].pc = "check",
                          ![i].late = IF FutureDone(i) THEN @ + 1 ELSE @]
    /\ UNCHANGED << state, ui, nOps, approveCalls >>

\* lines 252-276: future.result(), raise_for_status, the final or the error event
RiskResult(i) ==
    /\ inv[i].fn = "risk" /\ inv[i].pc = "result"
    /\ FutureDone(i)
    /\ LET answer == inv[i].wanswer
           e == IF Raises(answer)
                THEN << RiskApiError(answer), RiskErrorStatus >>
                ELSE << Get(answer.body, "risk_analysis", NoRisksIdentified), RiskDoneStatus >>
       IN inv' = [inv EXCEPT ![i].events = Append(@, e), ![i].wret = e[1], ![i].pc = "exit"]
    /\ UNCHANGED << state, ui, nOps, approveCalls >>

\* ---------------------------------------------------------------- exit
\* the generator is exhausted; the executor has shut down
Return(i) ==
    /\ inv[i].pc = "exit"
    /\ inv' = [inv EXCEPT ![i] = IdleSlot]
    /\ UNCHANGED << state, ui, nOps, approveCalls >>

Next ==
    \/ ApproveFeatures
    \/ \E i \in Slots :
        \/ ProcessStart(i)
        \/ ProcessCheck(i)
        \/ ProcessYield(i)
        \/ ProcessResult(i)
        \/ SummaryPost(i)
        \/ StoreSrsContent(i)
        \/ StoreProjectSummary(i)
        \/ ReadSrsContent(i)
        \/ ExtractPost(i)
        \/ StoreFeatureDetails(i)
        \/ ReturnFeatureDetails(i)
        \/ FeedbackStart(i)
        \/ FeedbackCheck(i)
        \/ FeedbackYield(i)
        \/ FeedbackResult(i)
        \/ ReEvaluateReadSrs(i)
        \/ ReEvaluatePost(i)
        \/ StoreReEvaluated(i)
        \/ ReturnReEvaluated(i)
        \/ RiskStart(i)
        \/ RiskReadApproved(i)
        \/ RiskReadSrs(i)
        \/ RiskReadSummary(i)
        \/ RiskSubmit(i)
        \/ RiskPost(i)
        \/ RiskCheck(i)
        \/ RiskYield(i)
        \/ RiskResult(i)
        \/ Return(i)

Spec == Init /\ [][Next]_vars

\* ------------------------------------------------------------ scheduling
\* what the async generator of slot i does after it has been started: the event
\* loop resumes it after every yield and every sleep
HandlerStep(i) ==
    \/ ProcessCheck(i) \/ ProcessYield(i) \/ ProcessResult(i)
    \/ FeedbackCheck(i) \/ FeedbackYield(i) \/ FeedbackResult(i)
    \/ RiskReadApproved(i) \/ RiskReadSrs(i) \/ RiskReadSummary(i) \/ RiskSubmit(i)
    \/ RiskCheck(i) \/ RiskYield(i) \/ RiskResult(i)
    \/ Return(i)

\* what the worker thread of slot i does: the executor runs it, and every
\* request is answered or fails
WorkerStep(i) ==
    \/ SummaryPost(i) \/ StoreSrsContent(i) \/ StoreProjectSummary(i)
    \/ ReadSrsContent(i) \/ ExtractPost(i) \/ StoreFeatureDetails(i)
    \/ ReturnFeatureDetails(i)
    \/ ReEvaluateReadSrs(i) \/ ReEvaluatePost(i) \/ StoreReEvaluated(i)
    \/ ReturnReEvaluated(i)
    \/ RiskPost(i)

FairSpec ==
    Spec /\ \A i \in Slots : WF_vars(HandlerStep(i)) /\ WF_vars(WorkerStep(i))

\* ------------------------------------------------ two concurrent uploads
\* Two extract_features_btn.click invocations run at the same time, each on
\* its own worker thread, on the one global state.
RaceSlots == {1, 2}

InitRace ==
    /\ state = FeatureState
    /\ ui = [ features_output |-> "", feedback_section |-> FALSE, risk_section |-> FALSE ]
    /\ inv = [ i \in RaceSlots |-> IdleSlot ]
    /\ nOps = 0
    /\ approveCalls = 0

NextRace ==
    \E i \in RaceSlots :
        \/ ProcessStart(i)
        \/ ProcessCheck(i)
        \/ ProcessYield(i)
        \/ ProcessResult(i)
        \/ SummaryPost(i)
        \/ StoreSrsContent(i)
        \/ StoreProjectSummary(i)
        \/ ReadSrsContent(i)
        \/ ExtractPost(i)
        \/ StoreFeatureDetails(i)
        \/ ReturnFeatureDetails(i)

SpecRace == InitRace /\ [][NextRace]_vars

\* ======================================================================
\* Properties
\* ======================================================================
\* the status string of an event (its last component)
Status(e) == e[Len(e)]

\* the progress list of a handler
Messages(fn) ==
    IF fn = "process" THEN ProcessMessages
    ELSE IF fn = "feedback" THEN FeedbackMessages
    ELSE IF fn = "risk" THEN RiskMessages
    ELSE << >>

Range(seq) == { seq[k] : k \in 1 .. Len(seq) }

AllAnswers == { NoResponse, [status |-> 500, body |-> << >>] }

\* texts that are error or validation messages, not features
ErrorTexts ==
    { ApiError(a) : a \in AllAnswers } \cup { ReEvaluationError(a) : a \in AllAnswers }

ValidationTexts == { UploadFirstMsg, FeedbackFirstMsg, ApproveFirstMsg }

\* a step in which approve_features runs
ApproveStep == approveCalls' = approveCalls + 1

\* a step in which slot i starts handler fn
StartStep(i, fn) == inv[i].fn = "idle" /\ inv'[i].fn = fn

\* C1: while approve_features has never been called, an analyze_risks_with_status
\* invocation emits the precondition message as its only event, issues no
\* request and creates no worker.
C1_RiskBeforeApprovalRejected ==
    \A i \in Slots :
        (inv[i].fn = "risk" /\ approveCalls = 0) =>
            /\ inv[i].events = << << ApproveFirstMsg, NoApprovedStatus >> >>
            /\ inv[i].reqs = << >>
            /\ inv[i].wpc = "none"
            /\ inv[i].pc = "exit"

C1_Witness ==
    \E i \in Slots : inv[i].fn = "risk" /\ approveCalls = 0 /\ state.feature_details # None

\* C2: whenever approve_features stores a value in state.approved_features, the
\* value equals state.feature_details at that moment.
C2_ApprovedEqualsFeatureDetails ==
    [][ ApproveStep => state'.approved_features = state.feature_details ]_vars

\* C3: starting a new pipeline run clears SessionState: once the new run has
\* started, approved_features of an earlier run is absent.
C3_NewRunClearsApproved ==
    [][ (\E i \in Slots : StartStep(i, "process") /\ inv'[i].file # None)
            => state'.approved_features = None ]_vars

\* the worker of a process invocation took an except path
Failed(i) == Raises(inv[i].wanswer)

\* a process invocation for a document has yielded its final event
ProcessCompleted(i) == inv[i].fn = "process" /\ inv[i].pc = "exit" /\ inv[i].file # None

\* C4: a completed startPipeline for a non-empty document ends either not failed
\* with a non-empty featureDetails or failed with a non-empty error message.
C4_NeverEmptyAndNotFailed ==
    \A i \in Slots :
        ProcessCompleted(i) =>
            LET out == inv[i].events[Len(inv[i].events)][1] IN
            \/ Failed(i) /\ out \in ErrorTexts
            \/ ~Failed(i) /\ out # "" /\ out # None /\ state.feature_details # ""

\* C5: the final event of process_documents_with_status reveals the feedback and
\* risk sections only when both remote calls succeeded.
C5_RevealOnlyOnSuccess ==
    \A i \in Slots :
        ProcessCompleted(i) =>
            LET e == inv[i].events[Len(inv[i].events)] IN
            (e[2] \/ e[3]) => (~Failed(i) /\ Len(inv[i].reqs) = 2)

\* a text made of whitespace only (the empty text included)
OnlyWhitespace(s) == \A k \in 1 .. Len(s) : s[k] \in Whitespace

\* C6: handle_feedback_with_status with an empty or whitespace-only feedback
\* leaves state.feature_details unchanged, issues no request, creates no worker
\* and emits exactly one event, which carries the validation message.
C6_BlankFeedbackRejected ==
    /\ [](\A i \in Slots :
            (inv[i].fn = "feedback" /\ OnlyWhitespace(inv[i].feedback)) =>
                /\ inv[i].events =
                      << << FeedbackFirstMsg, TRUE, TRUE, FeedbackEmptyStatus >> >>
                /\ inv[i].reqs = << >>
                /\ inv[i].wpc = "none"
                /\ inv[i].pc = "exit")
    /\ [][ \A i \in Slots :
             (StartStep(i, "feedback") /\ OnlyWhitespace(inv'[i].feedback)) => state' = state ]_vars

C6_Witness ==
    \E i \in Slots :
        /\ inv[i].fn = "feedback"
        /\ inv[i].feedback = << " ", "\t" >>
        /\ state.feature_details \notin {None, ""}

\* C7: a request to the re-evaluate endpoint is issued only when feature_details
\* holds the result of a successful extraction or re-evaluation, and never with
\* an error or validation message as previous_features.
C7_ReEvaluateOnlyWithFeatures ==
    \A i \in Slots :
        (inv[i].fn = "feedback" /\ inv[i].reqs # << >>) =>
            /\ state.feature_details # None
            /\ inv[i].reqs[1].payload.previous_features \notin ErrorTexts \cup ValidationTexts

\* C8: once set, state.approved_features is never changed by any operation.
C8_ApprovedImmutable ==
    [][ state.approved_features # None
            => state'.approved_features = state.approved_features ]_vars

\* C8 (amended): state.approved_features changes only in an approve_features
\* call, which overwrites it with the features_output value it was given.
C8_OnlyApproveChangesApproved ==
    [][ state'.approved_features # state.approved_features
            => (ApproveStep /\ state'.approved_features = ui.features_output) ]_vars

C8_Witness ==
    /\ approveCalls >= 2
    /\ state.approved_features \in {"featA", "featB"}
    /\ state.feature_details # state.approved_features

RECURSIVE ProgressOf(_, _)
ProgressOf(events, msgs) ==
    IF events = << >> THEN << >>
    ELSE IF Status(Head(events)) \in Range(msgs)
         THEN << Status(Head(events)) >> \o ProgressOf(Tail(events), msgs)
         ELSE ProgressOf(Tail(events), msgs)

\* C10: the progress strings emitted by one invocation are a prefix of the call
\* site's message list, and the number of waits equals the number of strings
\* emitted, hence is at most the length of the list.
C10_ProgressIsPrefix ==
    \A i \in Slots :
        inv[i].fn # "idle" =>
            LET msgs == Messages(inv[i].fn)
                emitted == ProgressOf(inv[i].events, msgs)
            IN /\ inv[i].waits <= Len(msgs)
               /\ inv[i].waits = Len(emitted)
               /\ emitted = SubSeq(msgs, 1, inv[i].waits)

C10_Witness ==
    \E i \in Slots : inv[i].fn = "process" /\ inv[i].pc = "exit" /\ inv[i].waits = 2

\* C11: in every interleaving of worker and polling generator, no progress
\* string is emitted after the worker has completed.
C11_NoProgressAfterCompletion ==
    \A i \in Slots : inv[i].late = 0

\* C11 (amended): after a future.done() check has observed completion no progress
\* string is emitted; a worker that completes between the check and the yield of
\* an iteration is followed by that one string, so at most one progress string
\* of an invocation is emitted after the completion.
C11_AtMostOneLateProgress ==
    /\ [](\A i \in Slots : inv[i].late <= 1)
    /\ [][ \A i \in Slots :
             inv[i].pc \in {"result", "exit"} =>
                 (inv'[i].waits = inv[i].waits \/ inv'[i] = IdleSlot) ]_vars

C11_Witness ==
    \E i \in Slots : inv[i].late = 1 /\ inv[i].pc = "exit" /\ inv[i].fn = "feedback"

\* the positions of the result events among the events of invocation i: the
\* events that are neither a progress event nor the initial status of the
\* risk analysis
Terminals(i) ==
    { k \in 1 .. Len(inv[i].events) :
        Status(inv[i].events[k]) \notin Range(Messages(inv[i].fn)) \cup {RiskInitStatus} }

\* C12: every invocation of the three handlers emits exactly one result event,
\* which is its last event, and when a worker was started the event is emitted
\* only after the worker has completed.
C12_ExactlyOneTerminalEvent ==
    \A i \in Slots :
        inv[i].fn # "idle" =>
            /\ inv[i].pc = "exit" => Terminals(i) = { Len(inv[i].events) }
            /\ inv[i].pc # "exit" => Terminals(i) = {}
            /\ (inv[i].pc = "exit" /\ inv[i].wpc # "none") => FutureDone(i)

C12_Witness ==
    \E i \in Slots :
        /\ inv[i].fn = "risk" /\ inv[i].pc = "exit"
        /\ inv[i].wpc = "done" /\ Raises(inv[i].wanswer)
        /\ Len(inv[i].events) >= 3

\* the endpoints of the requests of invocation i, in the order they were issued
Endpoints(i) == [ k \in 1 .. Len(inv[i].reqs) |-> inv[i].reqs[k].endpoint ]

\* C13: the requests of one startPipeline invocation are a prefix of
\* [summary, extraction]; a request is followed by another one only when it
\* succeeded; submitFeedback and analyzeRisks issue at most one request.
C13_RequestsSequentialNoRetry ==
    \A i \in Slots :
        inv[i].fn # "idle" =>
            /\ inv[i].fn = "process" =>
                  Endpoints(i) = SubSeq(<< "/summary/generate", "/features/extract" >>,
                                        1, Len(inv[i].reqs))
            /\ inv[i].fn = "feedback" =>
                  Endpoints(i) = SubSeq(<< "/features/re-evaluate" >>, 1, Len(inv[i].reqs))
            /\ inv[i].fn = "risk" =>
                  Endpoints(i) = SubSeq(<< "/api/risks/analyze" >>, 1, Len(inv[i].reqs))
            /\ \A k \in 1 .. Len(inv[i].reqs) - 1 : inv[i].reqs[k].answer.status = 200

C13_Witness ==
    \E i \in Slots :
        /\ inv[i].fn = "process" /\ inv[i].pc = "exit"
        /\ Len(inv[i].reqs) = 1
        /\ inv[i].reqs[1].answer.status = 500

\* invocation j has stored the srs_content (the project_summary) of its document
StoredSrs(j) ==
    /\ inv[j].fn = "process" /\ inv[j].file # None
    /\ inv[j].wpc \notin {"none", "w42", "w51"}
    /\ inv[j].reqs[1].answer.status = 200

StoredSummary(j) == StoredSrs(j) /\ inv[j].wpc # "w52"

\* C14: concurrent startPipeline invocations are not isolated on the global
\* state.  What holds in every interleaving: the extraction request of a run
\* carries the srs_content and the project_summary that some run (itself or the
\* concurrent one) has stored in the global state.  The witness is a state in
\* which the request of one run carries the content of the other run's document.
C14_PayloadFromSomeRun ==
    \A i \in RaceSlots :
        (inv[i].fn = "process" /\ Len(inv[i].reqs) = 2) =>
            LET p == inv[i].reqs[2].payload IN
            /\ \E j \in RaceSlots : StoredSrs(j) /\ p.srs_content = SrsOf(inv[j].file)
            /\ \E j \in RaceSlots :
                  StoredSummary(j) /\ p.project_summary = SummaryOf(inv[j].file)

C14_Witness ==
    \E i, j \in RaceSlots :
        /\ inv[i].file = "A" /\ inv[j].file = "B"
        /\ inv[i].pc = "exit" /\ inv[j].pc = "exit"
        /\ Len(inv[i].reqs) = 2
        /\ inv[i].reqs[2].payload.srs_content = SrsOf("B")
        /\ inv[i].reqs[2].payload.project_summary = SummaryOf("A")

\* C15: startPipeline without a document emits a single event with the
\* validation message, issues no request, creates no worker and leaves every
\* field of the global state unchanged.
C15_EmptyUploadRejected ==
    /\ [](\A i \in Slots :
            (inv[i].fn = "process" /\ inv[i].file = None) =>
                /\ inv[i].events = << << UploadFirstMsg, FALSE, FALSE, "" >> >>
                /\ inv[i].reqs = << >>
                /\ inv[i].wpc = "none"
                /\ inv[i].pc = "exit")
    /\ [][ \A i \in Slots :
             (StartStep(i, "process") /\ inv'[i].file = None) => state' = state ]_vars

C15_Witness ==
    \E i \in Slots :
        /\ inv[i].fn = "process" /\ inv[i].file = None
        /\ state.feature_details \in {"featA", "featB"}
        /\ state.approved_features \in {"featA", "featB"}

\* C16: only approve_features writes state.approved_features, and it is a local
\* operation: it issues no request, starts no worker and changes no other field
\* of the global state.
C16_ApproveIsLocalAndSoleWriter ==
    [][ /\ ApproveStep =>
              /\ inv' = inv
              /\ state'.srs_content = state.srs_content
              /\ state'.project_summary = state.project_summary
              /\ state'.feature_details = state.feature_details
        /\ ~ApproveStep => state'.approved_features = state.approved_features ]_vars

C16_Witness ==
    /\ approveCalls = 1
    /\ nOps = MaxOps
    /\ state.approved_features = "featA"
    /\ state.srs_content = "srsB"
    /\ state.feature_details = "revB"

\* the texts approve_features can be given
ApproveInputs ==
    { "", "featA", "featB", "revA", "revB", NoFeaturesExtracted, FeedbackFirstMsg,
      ui.features_output }

\* C17: for every input x and every reachable state, approve_features(x) called
\* twice leaves approved_features equal to x after the first and after the second
\* call, and the second call changes nothing else.
C17_ApproveIdempotent ==
    /\ [](\A x \in ApproveInputs :
            LET s1 == Approve(state, x)
                s2 == Approve(s1, x)
                u1 == ApproveOutputs(ui)
            IN /\ s1.approved_features = x
               /\ s2.approved_features = x
               /\ s2 = s1
               /\ ApproveOutputs(u1) = u1)
    /\ [][ (ApproveStep /\ state.approved_features = ui.features_output)
              => (state' = state /\ inv' = inv) ]_vars

\* two approvals with the input "" while one feedback round shows its progress
C17_Witness ==
    /\ approveCalls = 2
    /\ nOps = 4
    /\ state.approved_features = ""
    /\ \E i \in Slots :
          inv[i].fn = "feedback" /\ inv[i].pc # "exit" /\ inv[i].features = ""

\* C18: once a worker has been started, and given that the worker completes, the
\* invocation emits its terminal event after at most len(messages) waits; it
\* neither emits the terminal event nor returns while the worker is running.
C18_WorkerAlwaysAwaited ==
    /\ \A i \in Slots : (inv[i].wpc # "none") ~> (inv[i].pc = "exit")
    /\ [](\A i \in Slots :
            (inv[i].pc = "exit" /\ inv[i].wpc # "none") =>
                (FutureDone(i) /\ inv[i].waits <= Len(Messages(inv[i].fn))))
    /\ [][ \A i \in Slots :
             inv[i].wpc \notin {"none", "done"} => inv'[i].fn = inv[i].fn ]_vars

C18_Witness ==
    \E i \in Slots :
        /\ inv[i].fn = "risk" /\ inv[i].pc = "exit"
        /\ inv[i].wpc = "done"
        /\ inv[i].waits = Len(RiskMessages)

\* the worker of slot i takes the step at position w
WorkerAt(i, w) == inv[i].wpc = w /\ inv'[i].wpc # w

\* the step in which a request of slot i fails
RequestFails(i) == inv[i].wpc \in {"w42", "w58", "w87"} /\ inv'[i].wpc = "done"

\* the last request of slot i was answered with success
Answered(i, endpoint) ==
    /\ inv[i].reqs # << >>
    /\ inv[i].reqs[Len(inv[i].reqs)].endpoint = endpoint
    /\ inv[i].reqs[Len(inv[i].reqs)].answer.status = 200

\* C19: a failed request writes nothing: a failed summary call leaves every
\* field, a failed extraction leaves what lines 51-52 stored for the new
\* document and the previous feature_details, a failed re-evaluation leaves
\* feature_details.  srs_content and project_summary are written only after a
\* successful summary call, feature_details only after a successful extraction
\* or re-evaluation call.
C19_FailedCallsWriteNothing ==
    [][ \A i \in Slots :
          /\ RequestFails(i) => state' = state
          /\ (WorkerAt(i, "w51") /\ inv[i].fn = "process") =>
                state' = [state EXCEPT !.srs_content = SrsOf(inv[i].file)]
          /\ (WorkerAt(i, "w52") /\ inv[i].fn = "process") =>
                state' = [state EXCEPT !.project_summary = SummaryOf(inv[i].file)]
          /\ state'.srs_content # state.srs_content =>
                \E j \in Slots : WorkerAt(j, "w51") /\ Answered(j, "/summary/generate")
          /\ state'.project_summary # state.project_summary =>
                \E j \in Slots : WorkerAt(j, "w52") /\ Answered(j, "/summary/generate")
          /\ state'.feature_details # state.feature_details =>
                \E j \in Slots :
                    \/ WorkerAt(j, "w68") /\ Answered(j, "/features/extract")
                    \/ WorkerAt(j, "w99") /\ Answered(j, "/features/re-evaluate") ]_vars

\* the second upload failed in its extraction call: the global state holds the
\* new document's text with the features of the first one
C19_Witness ==
    \E i \in Slots :
        /\ inv[i].fn = "process" /\ inv[i].file = "B" /\ inv[i].wpc = "done"
        /\ Len(inv[i].reqs) = 2 /\ inv[i].reqs[2].answer.status = 500
        /\ state.srs_content = "srsB" /\ state.project_summary = "sumB"
        /\ state.feature_details = "featA"

\* C20: analyze_risks_with_status issues the risk-analysis request if and only
\* if state.approved_features is non-empty when it is invoked; an approval that
\* stored the empty text is treated like no approval.
C20_RequestIffApprovedNonEmpty ==
    \A i \in Slots :
        inv[i].fn = "risk" =>
            IF inv[i].checked \in {None, ""}
            THEN /\ inv[i].events = << << ApproveFirstMsg, NoApprovedStatus >> >>
                 /\ inv[i].reqs = << >>
                 /\ inv[i].wpc = "none"
                 /\ inv[i].pc = "exit"
            ELSE /\ inv[i].events # << >> => inv[i].events[1] = << "", RiskInitStatus >>
                 /\ inv[i].pc = "exit" => Len(inv[i].reqs) = 1
                 /\ FutureDone(i) => Len(inv[i].reqs) = 1

C20_Witness ==
    \E i \in Slots :
        /\ inv[i].fn = "risk"
        /\ inv[i].checked = ""
        /\ approveCalls >= 1
        /\ state.feature_details \in {"revA", "revB"}
====
